---- MODULE Spec2Model ----
(***************************************************************************)
(* Flynn Python MCP server: the tool dispatcher (server.py), the tabular   *)
(* engine (flynn_data/tools.py) and the inference engine with its pipeline *)
(* cache (flynn_ml/tools.py).                                              *)
(*                                                                         *)
(* Python values are tagged records [t |-> <type>, v |-> <payload>]:       *)
(*   "str"   a str that is only compared or concatenated (a TLA+ string)   *)
(*   "text"  a str that is searched or ordered (a sequence of characters)  *)
(*   "int"   an int            "float" a float, the fraction <<num, den>>  *)
(*   "nan"   float('nan'), the missing value of a pandas column            *)
(*   "none"  None              "list"  a list     "tuple" a tuple          *)
(* A dict is a TLA+ function (a record) from its str keys to its values;   *)
(* a dict keyed by data values is a sequence of <<key, value>> pairs in    *)
(* insertion order.                                                        *)
(***************************************************************************)
EXTENDS Integers, Sequences, FiniteSets, TLC

(***************************************************************************)
(* Bounds of the model.                                                    *)
(***************************************************************************)
NumTasks == 2   \* call_tool / get_pipeline invocations in flight or finished
MaxRows == 3    \* data rows of the CSV file

Tasks == 1..NumTasks

(***************************************************************************)
(* Python values.                                                          *)
(***************************************************************************)
S(x) == [t |-> "str", v |-> x]
Text(cs) == [t |-> "text", v |-> cs]
I(n) == [t |-> "int", v |-> n]
Fl(n, d) == [t |-> "float", v |-> <<n, d>>]
NaN == [t |-> "nan", v |-> 0]
None == [t |-> "none", v |-> 0]
List(xs) == [t |-> "list", v |-> xs]
Tuple(xs) == [t |-> "tuple", v |-> xs]

IsNumber(x) == x.t \in {"int", "float", "nan"}

\* The exact value of a number that is not NaN, as a fraction <<num, den>>, den > 0.
Frac(x) == IF x.t = "int" THEN <<x.v, 1>> ELSE x.v

\* Python's == on the values above (NaN equals nothing, itself included).
PyEq(a, b) ==
    IF a.t = "nan" \/ b.t = "nan" THEN FALSE
    ELSE IF IsNumber(a) /\ IsNumber(b)
         THEN Frac(a)[1] * Frac(b)[2] = Frac(b)[1] * Frac(a)[2]
    ELSE a.t = b.t /\ a.v = b.v

(***************************************************************************)
(* Characters and text.                                                    *)
(***************************************************************************)
\* ord() of the characters the model uses.
Ord(c) ==
    CASE c = "." -> 46
      [] c = "0" -> 48 [] c = "1" -> 49 [] c = "2" -> 50 [] c = "3" -> 51
      [] c = "4" -> 52 [] c = "5" -> 53 [] c = "6" -> 54 [] c = "7" -> 55
      [] c = "8" -> 56 [] c = "9" -> 57
      [] c = "A" -> 65 [] c = "B" -> 66 [] c = "M" -> 77 [] c = "N" -> 78
      [] c = "a" -> 97 [] c = "b" -> 98 [] c = "e" -> 101 [] c = "n" -> 110
      [] c = "o" -> 111

\* str < str: lexicographic by code point.
RECURSIVE TextLess(_, _)
TextLess(a, b) ==
    IF b = <<>> THEN FALSE
    ELSE IF a = <<>> THEN TRUE
    ELSE IF Head(a) = Head(b) THEN TextLess(Tail(a), Tail(b))
    ELSE Ord(Head(a)) < Ord(Head(b))

\* "".join(cs): a sequence of characters as one str.
RECURSIVE Join(_)
Join(cs) == IF cs = <<>> THEN "" ELSE Head(cs) \o Join(Tail(cs))

DigitChar(d) == <<"0", "1", "2", "3", "4", "5", "6", "7", "8", "9">>[d + 1]

\* str(n) of an int n >= 0.
RECURSIVE IntText(_)
IntText(n) == IF n < 10 THEN <<DigitChar(n)>>
              ELSE IntText(n \div 10) \o <<DigitChar(n % 10)>>

\* str(x) of a value: an int prints its digits, an integral float prints "<n>.0",
\* NaN prints "nan", None prints "None".
PyStr(x) ==
    CASE x.t = "text" -> x.v
      [] x.t = "int" -> IntText(x.v)
      [] x.t = "float" -> IntText(x.v[1] \div x.v[2]) \o <<".", "0">>
      [] x.t = "nan" -> <<"n", "a", "n">>
      [] x.t = "none" -> <<"N", "o", "n", "e">>

\* re.search(pat, text) for the patterns the model draws: a character matches
\* itself, except "." which matches any one character.
RECURSIVE MatchAt(_, _)
MatchAt(pat, text) ==
    IF pat = <<>> THEN TRUE
    ELSE IF text = <<>> THEN FALSE
    ELSE /\ (Head(pat) = "." \/ Head(pat) = Head(text))
         /\ MatchAt(Tail(pat), Tail(text))

ReSearch(pat, text) ==
    \E i \in 1..(Len(text) + 1) : MatchAt(pat, SubSeq(text, i, Len(text)))

\* pat in text: the literal substring test.
IsSubstring(pat, text) ==
    \E i \in 1..(Len(text) + 1) :
        /\ i + Len(pat) - 1 <= Len(text)
        /\ SubSeq(text, i, i + Len(pat) - 1) = pat

(***************************************************************************)
(* The CSV file and pandas.read_csv.  A file is absent, unparseable, or a  *)
(* header line (Columns) followed by rows; a row is a record from column   *)
(* name to the field as written: an int, a text, or NaN for an empty field. *)
(***************************************************************************)
Columns == <<"name", "age", "city", "salary">>
ColumnSet == {Columns[i] : i \in 1..Len(Columns)}

NoFile == [state |-> "absent", rows |-> <<>>]
Malformed == [state |-> "malformed", rows |-> <<>>]
CsvFile(rows) == [state |-> "csv", rows |-> rows]

DataPath == "data.csv"
MissingPath == "/nonexistent/file.csv"

\* The file at path, given the content of DataPath.
FileAt(path, file) == IF path = DataPath THEN file ELSE NoFile

\* A fault (a raised exception) and a normal return of a step.
Raise(msg) == [raised |-> TRUE, error |-> msg]
KeyError(k) == Raise("'" \o k \o "'")

\* The dtype pandas infers for a column: object when a field is text or there is
\* no row, int64 when every field is an int, float64 otherwise.
InferDtype(rows, col) ==
    IF rows = <<>> \/ \E i \in 1..Len(rows) : rows[i][col].t = "text"
    THEN "object"
    ELSE IF \A i \in 1..Len(rows) : rows[i][col].t = "int" THEN "int64"
    ELSE "float64"

\* A field as stored in a column of the given dtype.
Coerce(cell, dtype) ==
    IF cell.t = "int" /\ dtype = "float64" THEN Fl(cell.v, 1)
    ELSE IF cell.t = "int" /\ dtype = "object" THEN Text(IntText(cell.v))
    ELSE cell

\* rows[:n]
Take(rows, n) == SubSeq(rows, 1, IF n < Len(rows) THEN n ELSE Len(rows))

\* pd.read_csv(path, nrows=nrows): nrows < 0 stands for no limit.
ReadCsv(path, nrows, file) ==
    LET f == FileAt(path, file) IN
    IF f.state = "absent"
    THEN Raise("[Errno 2] No such file or directory: '" \o path \o "'")
    ELSE IF f.state = "malformed"
    THEN Raise("Error tokenizing data. C error: Expected 4 fields")
    ELSE LET raw == IF nrows < 0 THEN f.rows ELSE Take(f.rows, nrows)
             dt == [c \in ColumnSet |-> InferDtype(raw, c)]
         IN [raised |-> FALSE,
             df |-> [dtypes |-> dt,
                     rows |-> [i \in 1..Len(raw) |->
                                 [c \in ColumnSet |-> Coerce(raw[i][c], dt[c])]]]]

\* A failure and a success mapping of an engine.
Failure(msg) == [success |-> FALSE, error |-> msg]

\* What the body of an engine's try block does: it returns a mapping or raises,
\* having read `loads` datasets on the way.
Returned(value, loads) == [raised |-> FALSE, value |-> value, loads |-> loads]
Thrown(msg, loads) == [raised |-> TRUE, error |-> msg, loads |-> loads]

\* key in args, and args.get(key) with None as the default.
Has(args, k) == k \in DOMAIN args
Get(args, k) == IF Has(args, k) THEN args[k] ELSE None

\* len(preview) rows of DataFrame.head() in the filter and the preview tool.
FilterPreviewRows == 10
LoadPreviewRows == 5
DefaultLimit == 1000

(***************************************************************************)
(* flynn-data_filter                                                       *)
(***************************************************************************)
FilterOps == {"eq", "ne", "gt", "lt", "gte", "lte", "contains"}

\* a < b for two numbers or two texts, neither NaN.
Less(a, b) ==
    IF a.t = "text" THEN TextLess(a.v, b.v)
    ELSE Frac(a)[1] * Frac(b)[2] < Frac(b)[1] * Frac(a)[2]

\* Whether `column <op> val` raises TypeError for an ordering operator: a numeric
\* column against a value that is no number, or a text field against a value
\* that is no text.
OrderingFault(dtype, cells, val) ==
    IF dtype = "object"
    THEN \E i \in 1..Len(cells) : cells[i].t = "text" /\ val.t # "text"
    ELSE val.t \notin {"int", "float"}

\* Series.astype(str) on one field: NaN becomes the text "nan".
AsTypeStr(cell) == Text(PyStr(cell))

\* Series.str.contains(pat, na=na) on one field: a regular expression search,
\* `na` for a field that is missing.
StrContains(cell, pat, na) ==
    IF cell.t = "nan" THEN na ELSE ReSearch(pat, cell.v)

\* One element of the boolean mask (lines 113-126).
MaskAt(op, cell, val) ==
    CASE op = "eq" -> PyEq(cell, val)
      [] op = "ne" -> ~PyEq(cell, val)
      [] op = "gt" -> cell.t # "nan" /\ Less(val, cell)
      [] op = "lt" -> cell.t # "nan" /\ Less(cell, val)
      [] op = "gte" -> cell.t # "nan" /\ ~Less(cell, val)
      [] op = "lte" -> cell.t # "nan" /\ ~Less(val, cell)
      [] op = "contains" -> StrContains(AsTypeStr(cell), PyStr(val), FALSE)

\* df[mask]: the rows whose mask element is true, in order.
RECURSIVE BoolIndex(_, _)
BoolIndex(rows, mask) ==
    IF rows = <<>> THEN <<>>
    ELSE (IF Head(mask) THEN <<Head(rows)>> ELSE <<>>)
         \o BoolIndex(Tail(rows), Tail(mask))

\* df.head(n).to_dict(orient="records")
HeadRecords(rows, n) == List(Take(rows, n))

FilterTool(args, file) ==
    IF ~Has(args, "path") THEN Thrown(KeyError("path").error, 0)
    ELSE LET rd == ReadCsv(args["path"].v, -1, file) IN
    IF rd.raised THEN Thrown(rd.error, 0)
    ELSE IF ~Has(args, "column") THEN Thrown(KeyError("column").error, 1)
    ELSE IF ~Has(args, "operator") THEN Thrown(KeyError("operator").error, 1)
    ELSE LET col == args["column"].v
             op == args["operator"].v
             val == Get(args, "value")
             rows == rd.df.rows
         IN
         IF op \notin FilterOps
         THEN Returned(Failure("Unknown operator: " \o op), 1)
         ELSE IF col \notin ColumnSet THEN Thrown(KeyError(col).error, 1)
         ELSE LET cells == [i \in 1..Len(rows) |-> rows[i][col]] IN
              IF op \in {"gt", "lt", "gte", "lte"}
                 /\ OrderingFault(rd.df.dtypes[col], cells, val)
              THEN Thrown("'" \o op \o "' not supported between column '"
                          \o col \o "' and the value", 1)
              ELSE LET mask == [i \in 1..Len(rows) |-> MaskAt(op, cells[i], val)]
                       filtered == BoolIndex(rows, mask)
                   IN Returned([success |-> TRUE,
                                original_rows |-> I(Len(rows)),
                                filtered_rows |-> I(Len(filtered)),
                                preview |-> HeadRecords(filtered, FilterPreviewRows)],
                               1)

(***************************************************************************)
(* flynn-data_aggregate                                                    *)
(***************************************************************************)
AggFuncs == {"sum", "mean", "count", "min", "max"}

\* A dict keyed by data values: <<key, value>> pairs in insertion order.
Dict(pairs) == [t |-> "dict", v |-> pairs]

\* The columns a group_by argument names: one for a str, several for a list.
GroupColumns(by) == IF by.t = "list" THEN by.v ELSE <<by.v>>

\* The group key of a row: the field itself for one column, a tuple of the
\* fields for a list of two or more columns.
GroupKey(row, by) ==
    IF by.t = "list" /\ Len(by.v) > 1
    THEN Tuple([j \in 1..Len(by.v) |-> row[by.v[j]]])
    ELSE row[GroupColumns(by)[1]]

\* groupby drops a row whose key holds a missing value (dropna=True).
KeyMissing(row, by) ==
    \E j \in 1..Len(GroupColumns(by)) : row[GroupColumns(by)[j]].t = "nan"

\* Order of group keys (sort=True): fields by value, tuples lexicographically.
RECURSIVE KeyLess(_, _)
KeyLess(a, b) ==
    IF a.t = "tuple"
    THEN IF a.v = <<>> THEN FALSE
         ELSE IF PyEq(Head(a.v), Head(b.v))
              THEN KeyLess(Tuple(Tail(a.v)), Tuple(Tail(b.v)))
              ELSE Less(Head(a.v), Head(b.v))
    ELSE Less(a, b)

\* keys with k inserted in order, once.
RECURSIVE InsertKey(_, _)
InsertKey(keys, k) ==
    IF keys = <<>> THEN <<k>>
    ELSE IF Head(keys) = k THEN keys
    ELSE IF KeyLess(k, Head(keys)) THEN <<k>> \o keys
    ELSE <<Head(keys)>> \o InsertKey(Tail(keys), k)

\* The sorted distinct keys of the rows.
RECURSIVE GroupKeys(_, _)
GroupKeys(rows, by) ==
    IF rows = <<>> THEN <<>>
    ELSE LET rest == GroupKeys(Tail(rows), by) IN
         IF KeyMissing(Head(rows), by) THEN rest
         ELSE InsertKey(rest, GroupKey(Head(rows), by))

\* The non-missing fields of `col` in the rows of group k, in row order.
RECURSIVE GroupValues(_, _, _, _)
GroupValues(rows, by, k, col) ==
    IF rows = <<>> THEN <<>>
    ELSE (IF ~KeyMissing(Head(rows), by) /\ GroupKey(Head(rows), by) = k
             /\ Head(rows)[col].t # "nan"
          THEN <<Head(rows)[col]>> ELSE <<>>)
         \o GroupValues(Tail(rows), by, k, col)

RECURSIVE SumInts(_)
SumInts(vals) == IF vals = <<>> THEN 0 ELSE Frac(Head(vals))[1] + SumInts(Tail(vals))

RECURSIVE ConcatTexts(_)
ConcatTexts(vals) == IF vals = <<>> THEN <<>> ELSE Head(vals).v \o ConcatTexts(Tail(vals))

\* The least (most = FALSE) or greatest (most = TRUE) of a non-empty sequence.
RECURSIVE Extreme(_, _)
Extreme(vals, most) ==
    IF Len(vals) = 1 THEN vals[1]
    ELSE LET r == Extreme(Tail(vals), most) IN
         IF most THEN (IF Less(r, Head(vals)) THEN Head(vals) ELSE r)
         ELSE (IF Less(Head(vals), r) THEN Head(vals) ELSE r)

\* A number of a column of the given dtype.
Num(n, dtype) == IF dtype = "int64" THEN I(n) ELSE Fl(n, 1)

\* The reduction with the mean taken for the sum.
Reduce_MeanIsSum(func, vals, dtype) ==
    CASE func = "count" -> I(Len(vals))
      [] func = "sum" -> IF dtype = "object"
                         THEN (IF vals = <<>> THEN I(0) ELSE Text(ConcatTexts(vals)))
                         ELSE Num(SumInts(vals), dtype)
      [] func = "mean" -> IF vals = <<>> THEN NaN ELSE Fl(SumInts(vals), 1)
      [] func = "min" -> IF vals = <<>> THEN NaN ELSE Extreme(vals, FALSE)
      [] func = "max" -> IF vals = <<>> THEN NaN ELSE Extreme(vals, TRUE)

\* One group's reduction (lines 143-152) of its non-missing values.
Reduce(func, vals, dtype) ==
    CASE func = "count" -> I(Len(vals))
      [] func = "sum" -> IF dtype = "object"
                         THEN (IF vals = <<>> THEN I(0) ELSE Text(ConcatTexts(vals)))
                         ELSE Num(SumInts(vals), dtype)
      [] func = "mean" -> IF vals = <<>> THEN NaN ELSE Fl(SumInts(vals), Len(vals))
      [] func = "min" -> IF vals = <<>> THEN NaN ELSE Extreme(vals, FALSE)
      [] func = "max" -> IF vals = <<>> THEN NaN ELSE Extreme(vals, TRUE)

AggregateTool(args, file) ==
    IF ~Has(args, "path") THEN Thrown(KeyError("path").error, 0)
    ELSE LET rd == ReadCsv(args["path"].v, -1, file) IN
    IF rd.raised THEN Thrown(rd.error, 0)
    ELSE IF ~Has(args, "group_by") THEN Thrown(KeyError("group_by").error, 1)
    ELSE LET by == args["group_by"]
             cols == GroupColumns(by)
         IN
         IF \E j \in 1..Len(cols) : cols[j] \notin ColumnSet
         THEN Thrown(KeyError(cols[CHOOSE j \in 1..Len(cols) :
                                     cols[j] \notin ColumnSet]).error, 1)
         ELSE IF ~Has(args, "agg_column") THEN Thrown(KeyError("agg_column").error, 1)
         ELSE LET col == args["agg_column"].v IN
         IF col \notin ColumnSet THEN Thrown("'Column not found: " \o col \o "'", 1)
         ELSE IF ~Has(args, "agg_func") THEN Thrown(KeyError("agg_func").error, 1)
         ELSE LET func == args["agg_func"].v
                  rows == rd.df.rows
                  dtype == rd.df.dtypes[col]
                  keys == GroupKeys(rows, by)
              IN
              IF func \notin AggFuncs
              THEN Returned(Failure("Unknown function: " \o func), 1)
              ELSE IF func = "mean" /\ dtype = "object" /\ keys # <<>>
              THEN Thrown("agg function failed [how->mean,dtype->object]", 1)
              ELSE Returned(
                     [success |-> TRUE,
                      result |-> Dict([g \in 1..Len(keys) |->
                          <<keys[g],
                            Reduce(func, GroupValues(rows, by, keys[g], col), dtype)>>])],
                     1)

(***************************************************************************)
(* flynn-data_load_csv, flynn-data_describe, flynn-data_correlate          *)
(***************************************************************************)
\* A finite float the model does not compute (a standard deviation, a quartile).
Finite(what) == [t |-> "finite", v |-> what]
\* sign * sqrt(num / den), a correlation coefficient strictly between -1 and 1.
Root(sign, num, den) == [t |-> "root", v |-> <<sign, num, den>>]

\* load_csv reading the whole file, whatever the limit.
LoadCsvTool_NoLimit(args, file) ==
    IF ~Has(args, "path") THEN Thrown(KeyError("path").error, 0)
    ELSE LET rd == ReadCsv(args["path"].v, -1, file) IN
         IF rd.raised THEN Thrown(rd.error, 0)
         ELSE Returned([success |-> TRUE,
                        rows |-> I(Len(rd.df.rows)),
                        columns |-> List(Columns),
                        dtypes |-> [c \in ColumnSet |-> S(rd.df.dtypes[c])],
                        preview |-> HeadRecords(rd.df.rows, LoadPreviewRows)],
                       1)

LoadCsvTool(args, file) ==
    IF ~Has(args, "path") THEN Thrown(KeyError("path").error, 0)
    ELSE LET limit == IF Has(args, "limit") THEN args["limit"].v ELSE DefaultLimit
             rd == ReadCsv(args["path"].v, limit, file)
         IN
         IF rd.raised THEN Thrown(rd.error, 0)
         ELSE Returned([success |-> TRUE,
                        rows |-> I(Len(rd.df.rows)),
                        columns |-> List(Columns),
                        dtypes |-> [c \in ColumnSet |-> S(rd.df.dtypes[c])],
                        preview |-> HeadRecords(rd.df.rows, LoadPreviewRows)],
                       1)

\* The non-missing fields of a column, in row order.
RECURSIVE Present(_, _)
Present(rows, col) ==
    IF rows = <<>> THEN <<>>
    ELSE (IF Head(rows)[col].t # "nan" THEN <<Head(rows)[col]>> ELSE <<>>)
         \o Present(Tail(rows), col)

Occurrences(vals, x) == Cardinality({i \in 1..Len(vals) : vals[i] = x})

\* The value describe() reports as `top`: a most frequent one.
Top(vals) ==
    CHOOSE x \in {vals[i] : i \in 1..Len(vals)} :
        \A j \in 1..Len(vals) : Occurrences(vals, vals[j]) <= Occurrences(vals, x)

\* df.describe(include="all") for one column and one statistic.
DescribeStat(rows, col, dtype, stat) ==
    LET vals == Present(rows, col)
        n == Len(vals)
    IN
    IF dtype = "object"
    THEN CASE stat = "count" -> I(n)
           [] stat = "unique" -> I(Cardinality({vals[i] : i \in 1..n}))
           [] stat = "top" -> IF n = 0 THEN NaN ELSE Top(vals)
           [] stat = "freq" -> IF n = 0 THEN NaN ELSE I(Occurrences(vals, Top(vals)))
           [] OTHER -> NaN
    ELSE CASE stat = "count" -> Fl(n, 1)
           [] stat = "mean" -> IF n = 0 THEN NaN ELSE Fl(SumInts(vals), n)
           [] stat = "std" -> IF n < 2 THEN NaN ELSE Finite("std")
           [] stat = "min" -> IF n = 0 THEN NaN ELSE Extreme(vals, FALSE)
           [] stat = "50%" -> IF n = 0 THEN NaN ELSE Finite("50%")
           [] stat = "max" -> IF n = 0 THEN NaN ELSE Extreme(vals, TRUE)
           [] OTHER -> NaN

ObjectStats == {"count", "unique", "top", "freq"}
NumericStats == {"count", "mean", "std", "min", "50%", "max"}

\* The statistics describe(include="all") reports: those of the kinds of column
\* the frame has.
StatsOf(dtypes) ==
    (IF \E c \in ColumnSet : dtypes[c] = "object" THEN ObjectStats ELSE {})
    \cup (IF \E c \in ColumnSet : dtypes[c] # "object" THEN NumericStats ELSE {})

\* Lines 103-104 and 169-170: a numpy scalar becomes a float, or None when it is
\* not finite; any other value is left as it is.  `numpy` tells whether to_dict
\* handed the numbers over as numpy scalars rather than as Python numbers.
Normalize(val, numpy) ==
    IF numpy /\ val.t \in {"int", "float", "finite", "root", "nan"}
    THEN (IF val.t = "nan" THEN None
          ELSE IF val.t = "int" THEN Fl(val.v, 1) ELSE val)
    ELSE val

DescribeTool(args, file, numpy) ==
    IF ~Has(args, "path") THEN Thrown(KeyError("path").error, 0)
    ELSE LET rd == ReadCsv(args["path"].v, -1, file) IN
    IF rd.raised THEN Thrown(rd.error, 0)
    ELSE Returned(
           [success |-> TRUE,
            statistics |->
              [c \in ColumnSet |->
                [st \in StatsOf(rd.df.dtypes) |->
                   Normalize(DescribeStat(rd.df.rows, c, rd.df.dtypes[c], st),
                             numpy)]]],
           1)

\* The rows in which both columns are present.
RECURSIVE Paired(_, _, _)
Paired(rows, a, b) ==
    IF rows = <<>> THEN <<>>
    ELSE (IF Head(rows)[a].t # "nan" /\ Head(rows)[b].t # "nan"
          THEN <<Head(rows)>> ELSE <<>>)
         \o Paired(Tail(rows), a, b)

RECURSIVE SumProducts(_, _, _)
SumProducts(rows, a, b) ==
    IF rows = <<>> THEN 0
    ELSE Frac(Head(rows)[a])[1] * Frac(Head(rows)[b])[1]
         + SumProducts(Tail(rows), a, b)

\* n^2 times the covariance of columns a and b over the given rows.
Cov(rows, a, b) ==
    Len(rows) * SumProducts(rows, a, b)
    - SumInts([i \in 1..Len(rows) |-> rows[i][a]])
      * SumInts([i \in 1..Len(rows) |-> rows[i][b]])

\* DataFrame.corr(): Pearson's r over the rows where both columns are present;
\* NaN with fewer than two such rows or with a column of zero variance.
Pearson(rows, a, b) ==
    LET p == Paired(rows, a, b)
        va == Cov(p, a, a)
        vb == Cov(p, b, b)
        c == Cov(p, a, b)
    IN IF Len(p) < 2 \/ va = 0 \/ vb = 0 THEN NaN
       ELSE IF c * c = va * vb THEN Fl(IF c < 0 THEN -1 ELSE 1, 1)
       ELSE IF c = 0 THEN Fl(0, 1)
       ELSE Root(IF c < 0 THEN -1 ELSE 1, c * c, va * vb)

CorrelateTool(args, file, numpy) ==
    IF ~Has(args, "path") THEN Thrown(KeyError("path").error, 0)
    ELSE LET rd == ReadCsv(args["path"].v, -1, file) IN
    IF rd.raised THEN Thrown(rd.error, 0)
    ELSE LET numeric == {c \in ColumnSet : rd.df.dtypes[c] # "object"} IN
         Returned(
           [success |-> TRUE,
            correlation |->
              [a \in numeric |->
                [b \in numeric |-> Normalize(Pearson(rd.df.rows, a, b), numpy)]]],
           1)

(***************************************************************************)
(* execute_data_tool                                                       *)
(***************************************************************************)
\* Tool names are sequences of characters: the dispatcher tests their prefix.
DataPrefix == <<"f", "l", "y", "n", "n", "-", "d", "a", "t", "a", "_">>
MlPrefix == <<"f", "l", "y", "n", "n", "-", "m", "l", "_">>

N_load_csv == DataPrefix \o <<"l", "o", "a", "d", "_", "c", "s", "v">>
N_describe == DataPrefix \o <<"d", "e", "s", "c", "r", "i", "b", "e">>
N_filter == DataPrefix \o <<"f", "i", "l", "t", "e", "r">>
N_aggregate == DataPrefix \o <<"a", "g", "g", "r", "e", "g", "a", "t", "e">>
N_correlate == DataPrefix \o <<"c", "o", "r", "r", "e", "l", "a", "t", "e">>
N_sentiment == MlPrefix \o <<"s", "e", "n", "t", "i", "m", "e", "n", "t">>
N_summarize == MlPrefix \o <<"s", "u", "m", "m", "a", "r", "i", "z", "e">>
N_classify == MlPrefix \o <<"c", "l", "a", "s", "s", "i", "f", "y">>
N_embeddings == MlPrefix \o <<"e", "m", "b", "e", "d", "d", "i", "n", "g", "s">>

UnknownTool(name) == Failure("Unknown tool: " \o Join(name))

\* The try block of execute_data_tool (lines 86-173).
DataToolBody(name, args, file, numpy) ==
    CASE name = N_load_csv -> LoadCsvTool(args, file)
      [] name = N_describe -> DescribeTool(args, file, numpy)
      [] name = N_filter -> FilterTool(args, file)
      [] name = N_aggregate -> AggregateTool(args, file)
      [] name = N_correlate -> CorrelateTool(args, file, numpy)
      [] OTHER -> Returned(UnknownTool(name), 0)

\* except Exception as e: the failure mapping of str(e) (lines 175-176).
Except(body) ==
    IF body.raised THEN Failure(body.error) ELSE body.value

\* execute_data_tool(name, args): the mapping it returns and the number of
\* datasets it read.
ExecuteDataTool(name, args, file, numpy) ==
    LET body == DataToolBody(name, args, file, numpy) IN
    [result |-> Except(body), loads |-> body.loads]

(***************************************************************************)
(* The pipeline cache and get_pipeline (flynn_ml/tools.py, lines 70-80).   *)
(***************************************************************************)
\* model or 'default': None and the empty str are falsy.
ModelOrDefault(model) ==
    IF model.t = "none" \/ model.v = "" THEN "default" ELSE model.v

\* key = f"{task}:{model or 'default'}"
Key(task, model) == task \o ":" \o ModelOrDefault(model)

\* key not in _pipelines
CacheMiss(cache, key) == key \notin DOMAIN cache

\* The object pipeline(task, model=model) returns: a new one on every call, here
\* the n-th one built for its key.
NewPipeline(task, model, n) == [task |-> task, model |-> model, n |-> n]

\* The cache left as it was: the pipeline is not stored.
Store_Dropped(cache, key, pipe) == cache

\* _pipelines[key] = pipe
Store(cache, key, pipe) ==
    [k \in DOMAIN cache \cup {key} |-> IF k = key THEN pipe ELSE cache[k]]

(***************************************************************************)
(* execute_ml_tool                                                         *)
(***************************************************************************)
PipelineTools == {N_sentiment, N_summarize, N_classify}

\* The task each tool acquires its pipeline for (lines 87, 96, 109).
PipelineTask(name) ==
    CASE name = N_sentiment -> "sentiment-analysis"
      [] name = N_summarize -> "summarization"
      [] name = N_classify -> "zero-shot-classification"

DefaultMaxLength == 150
MinLength == 30

\* The rest of a pipeline tool's branch once get_pipeline has returned: the
\* arguments are read, the pipeline runs (and raises unless inferOk), and the
\* result mapping is built.
AfterPipeline(name, args, inferOk) ==
    CASE name = N_sentiment ->
           IF ~Has(args, "text") THEN Thrown(KeyError("text").error, 0)
           ELSE IF ~inferOk THEN Thrown("inference failed", 0)
           ELSE Returned([success |-> TRUE, label |-> S("POSITIVE"),
                          score |-> Finite("score")], 0)
      [] name = N_summarize ->
           IF ~Has(args, "text") THEN Thrown(KeyError("text").error, 0)
           ELSE IF ~inferOk THEN Thrown("inference failed", 0)
           ELSE Returned([success |-> TRUE,
                          summary |-> [t |-> "summary",
                                       v |-> <<MinLength,
                                               IF Has(args, "max_length")
                                               THEN args["max_length"].v
                                               ELSE DefaultMaxLength>>]], 0)
      [] name = N_classify ->
           IF ~Has(args, "text") THEN Thrown(KeyError("text").error, 0)
           ELSE IF ~Has(args, "labels") THEN Thrown(KeyError("labels").error, 0)
           ELSE IF ~inferOk THEN Thrown("inference failed", 0)
           ELSE Returned([success |-> TRUE, labels |-> args["labels"],
                          scores |-> List([i \in 1..Len(args["labels"].v) |->
                                             Finite("score")])], 0)

\* The embeddings branch (lines 117-137): the tokenizer and the encoder are
\* loaded (raising unless loadOk), then the argument is read and the encoder run.
EmbeddingsTool(args, loadOk, inferOk) ==
    IF ~loadOk THEN Thrown("model load failed", 0)
    ELSE IF ~Has(args, "texts") THEN Thrown(KeyError("texts").error, 0)
    ELSE IF ~inferOk THEN Thrown("inference failed", 0)
    ELSE Returned([success |-> TRUE,
                   embeddings |-> List([i \in 1..Len(args["texts"].v) |->
                                          Finite("vector")]),
                   dimensions |-> Finite("dimensions")], 0)

(***************************************************************************)
(* call_tool (server.py, lines 31-46)                                      *)
(***************************************************************************)
\* name.startswith(prefix)
StartsWith(name, prefix) ==
    Len(name) >= Len(prefix) /\ SubSeq(name, 1, Len(prefix)) = prefix

\* Routing by the namespace without its separator "_".
Route_NoSeparator(name) ==
    IF StartsWith(name, SubSeq(DataPrefix, 1, Len(DataPrefix) - 1)) THEN "data"
    ELSE IF StartsWith(name, SubSeq(MlPrefix, 1, Len(MlPrefix) - 1)) THEN "ml"
    ELSE "none"

\* The engine call_tool hands the call to (lines 37-42).
Route(name) ==
    IF StartsWith(name, DataPrefix) THEN "data"
    ELSE IF StartsWith(name, MlPrefix) THEN "ml"
    ELSE "none"

\* A dict keyed by data values as json.dumps writes it: an object keyed by the
\* str of each key.
JsonValue(x) ==
    IF x.t = "dict"
    THEN [t |-> "object",
          v |-> [i \in 1..Len(x.v) |-> <<Join(PyStr(x.v[i][1])), x.v[i][2]>>]]
    ELSE x

\* Whether json.dumps raises TypeError on a value: a dict key must be a str, an
\* int, a float, a bool or None.
JsonFault(x) ==
    x.t = "dict" /\ \E i \in 1..Len(x.v) : x.v[i][1].t = "tuple"

\* The fields of a result mapping that hold a dict keyed by data values (the
\* aggregate tool's `result`); every other field is keyed by str.
DataKeyed(result) == DOMAIN result \cap {"result"}

\* json.dumps(result, indent=2): the document, or the TypeError it raises.
JsonDumps(result) ==
    IF \E f \in DataKeyed(result) : JsonFault(result[f])
    THEN Raise("keys must be str, int, float, bool or None, not tuple")
    ELSE [raised |-> FALSE,
          text |-> [f \in DOMAIN result |->
                      IF f \in DataKeyed(result) THEN JsonValue(result[f])
                      ELSE result[f]]]

\* What an invocation hands to its caller: a value, or an unhandled fault.
NoOutcome == [kind |-> "none"]
ReturnedValue(x) == [kind |-> "returned", value |-> x]
Unhandled(msg) == [kind |-> "raised", error |-> msg]

\* return [TextContent(type="text", text=json.dumps(result, indent=2))]
Respond(result) ==
    LET j == JsonDumps(result) IN
    IF j.raised THEN Unhandled(j.error)
    ELSE ReturnedValue(<<[type |-> "text", text |-> j.text]>>)

(***************************************************************************)
(* The tool descriptor tables (DATA_TOOLS, ML_TOOLS, ALL_TOOLS).           *)
(***************************************************************************)
\* Tool(name=..., description=..., inputSchema={...})
Tool(name, description, properties, required) ==
    [name |-> name, description |-> description,
     inputSchema |-> [type |-> "object", properties |-> properties,
                      required |-> required]]

\* {"type": "string", "description": "Path to CSV file"}
PathProperty == [type |-> "string", description |-> "Path to CSV file"]

DATA_TOOLS ==
    << Tool(N_load_csv, "Load a CSV file and return basic statistics",
            [path |-> PathProperty,
             limit |-> [type |-> "integer", description |-> "Max rows to load"]],
            <<"path">>),
       Tool(N_describe, "Get statistical description of a dataset",
            [path |-> PathProperty],
            <<"path">>),
       Tool(N_filter, "Filter dataset by column conditions",
            [path |-> PathProperty,
             column |-> [type |-> "string", description |-> "Column to filter on"],
             operator |-> [type |-> "string",
                           enum |-> <<"eq", "ne", "gt", "lt", "gte", "lte",
                                      "contains">>],
             value |-> [description |-> "Value to compare against"]],
            <<"path", "column", "operator">>),
       Tool(N_aggregate, "Aggregate data by group",
            [path |-> PathProperty,
             group_by |-> [type |-> "string", description |-> "Column to group by"],
             agg_column |-> [type |-> "string",
                             description |-> "Column to aggregate"],
             agg_func |-> [type |-> "string",
                           enum |-> <<"sum", "mean", "count", "min", "max">>]],
            <<"path", "group_by", "agg_column", "agg_func">>),
       Tool(N_correlate, "Calculate correlation matrix for numeric columns",
            [path |-> PathProperty],
            <<"path">>) >>

ML_TOOLS ==
    << Tool(N_sentiment, "Analyze sentiment of text (positive/negative/neutral)",
            [text |-> [type |-> "string", description |-> "Text to analyze"]],
            <<"text">>),
       Tool(N_summarize, "Summarize a long text",
            [text |-> [type |-> "string", description |-> "Text to summarize"],
             max_length |-> [type |-> "integer",
                             description |-> "Max summary length"]],
            <<"text">>),
       Tool(N_classify, "Zero-shot text classification",
            [text |-> [type |-> "string", description |-> "Text to classify"],
             labels |-> [type |-> "array", items |-> [type |-> "string"],
                         description |-> "Candidate labels"]],
            <<"text", "labels">>),
       Tool(N_embeddings, "Generate text embeddings for semantic similarity",
            [texts |-> [type |-> "array", items |-> [type |-> "string"],
                        description |-> "Texts to embed"]],
            <<"texts">>) >>

\* The tables in the other order.
ALL_TOOLS_MlFirst == ML_TOOLS \o DATA_TOOLS

\* ALL_TOOLS = DATA_TOOLS + ML_TOOLS
ALL_TOOLS == DATA_TOOLS \o ML_TOOLS

(***************************************************************************)
(* The inputs the model draws.                                             *)
(***************************************************************************)
Row(name, age, city, salary) ==
    [name |-> name, age |-> age, city |-> city, salary |-> salary]

T_Ana == Text(<<"A", "n", "a">>)
T_Bob == Text(<<"B", "o", "b">>)
T_B == Text(<<"B">>)
T_M == Text(<<"M">>)

\* The file the dispatcher's calls read.
SampleFile ==
    CsvFile(<<Row(T_Ana, I(30), T_B, I(5)),
              Row(T_Bob, I(25), T_M, I(4)),
              Row(NaN, I(28), T_B, NaN)>>)

NoArgs == [k \in {} |-> None]
PathOnly == [path |-> S(DataPath)]

N_data_unknown == DataPrefix \o <<"u", "n", "k", "n", "o", "w", "n">>
N_ml_unknown == MlPrefix \o <<"u", "n", "k", "n", "o", "w", "n">>
N_other == <<"o", "t", "h", "e", "r">>
N_flynn_data == <<"f", "l", "y", "n", "n", "-", "d", "a", "t", "a">>

CallTool(name, args) == [kind |-> "call_tool", name |-> name, args |-> args]
GetPipeline(task, model) == [kind |-> "get_pipeline", task |-> task, model |-> model]
ListTools == [kind |-> "list_tools"]
NoRequest == [kind |-> "none"]

DataRequests ==
    { CallTool(N_load_csv, NoArgs),
      CallTool(N_filter, [path |-> S(DataPath), column |-> S("age"),
                          operator |-> S("gt"), value |-> I(25)]),
      CallTool(N_filter, [path |-> S(DataPath), column |-> S("age"),
                          operator |-> S("invalid"), value |-> I(25)]),
      CallTool(N_filter, [path |-> S(MissingPath), column |-> S("age"),
                          operator |-> S("invalid"), value |-> I(25)]),
      CallTool(N_aggregate, [path |-> S(DataPath),
                             group_by |-> List(<<"city", "name">>),
                             agg_column |-> S("age"), agg_func |-> S("sum")]),
      CallTool(N_data_unknown, PathOnly) }

MlRequests ==
    { CallTool(N_sentiment, [text |-> T_Ana]),
      CallTool(N_sentiment, NoArgs),
      CallTool(N_summarize, [text |-> T_Ana]),
      CallTool(N_classify, [text |-> T_Ana]),
      CallTool(N_embeddings, [texts |-> List(<<T_Ana, T_Bob>>)]),
      CallTool(N_ml_unknown, [text |-> T_Ana]) }

OtherRequests ==
    { CallTool(N_other, NoArgs), CallTool(N_flynn_data, PathOnly) }

Models == {None, S(""), S("default"), S("m1")}

PipelineRequests == { GetPipeline("sentiment-analysis", m) : m \in Models }

Requests ==
    DataRequests \cup MlRequests \cup OtherRequests \cup PipelineRequests
    \cup {ListTools}

(***************************************************************************)
(* The state.                                                              *)
(***************************************************************************)
VARIABLES
    file,         \* the content of DataPath
    pipelines,    \* _pipelines: key -> pipeline
    pc,           \* per task: "idle", "pending", "constructing" or "done"
    req,          \* per task: its request while the call is in flight
    running,      \* the task the event loop is running, 0 when it is free
    began,        \* per task: _pipelines when the call began
    rivals,       \* per task: the tasks that were pending for the same,
                  \*   uncached, key when the call began
    acq,          \* per task: what get_pipeline was asked for and returned
    constructed,  \* key -> the pipelines constructed for it so far
    fin           \* the call that ended last

vars == <<file, pipelines, pc, req, running, began, rivals, acq, constructed, fin>>

NoPipe == [task |-> "", model |-> None, n |-> 0]
NoCache == [k \in {} |-> NoPipe]
NoAcq == [task |-> "", model |-> None, pipe |-> NoPipe]
NoResult == [success |-> FALSE, error |-> "<no result>"]
NoFin == [req |-> NoRequest, out |-> NoOutcome, result |-> NoResult,
          engine |-> "none", loads |-> 0, before |-> NoCache, after |-> NoCache]

Init ==
    /\ file = SampleFile
    /\ pipelines = NoCache
    /\ pc = [t \in Tasks |-> "idle"]
    /\ req = [t \in Tasks |-> NoRequest]
    /\ running = 0
    /\ began = [t \in Tasks |-> NoCache]
    /\ rivals = [t \in Tasks |-> {}]
    /\ acq = [t \in Tasks |-> NoAcq]
    /\ constructed = [k \in {} |-> 0]
    /\ fin = NoFin

\* The pipelines constructed so far for a key.
Built(key) == IF key \in DOMAIN constructed THEN constructed[key] ELSE 0

\* The key a request acquires a pipeline for; "" when it acquires none.
RequestKey(r) ==
    IF r.kind = "get_pipeline" THEN Key(r.task, r.model)
    ELSE IF r.kind = "call_tool" /\ r.name \in PipelineTools
    THEN Key(PipelineTask(r.name), None)
    ELSE ""

AcquiresPipeline(r) == RequestKey(r) # ""

\* The task and the model get_pipeline is called with.
AcquiredTask(r) == IF r.kind = "get_pipeline" THEN r.task ELSE PipelineTask(r.name)
AcquiredModel(r) == IF r.kind = "get_pipeline" THEN r.model ELSE None

(***************************************************************************)
(* The dispatcher's actions.  The server is one asyncio event loop: every  *)
(* call_tool request is a task of it, and a task runs until it awaits      *)
(* something that suspends it.  call_tool awaits only the engines'         *)
(* coroutines, which contain no await, so a call runs from its first line  *)
(* to its return without another task running in between; the one step     *)
(* shown apart is the construction of a pipeline (line 79), during which   *)
(* the event loop stays with the constructing task.  Tasks are numbered in *)
(* the order their requests arrive.                                        *)
(***************************************************************************)
\* A request arrives and becomes the next task of the event loop.
Receive(t, r) ==
    /\ pc[t] = "idle"
    /\ \A q \in 1..(t - 1) : pc[q] # "idle"
    /\ pc' = [pc EXCEPT ![t] = "pending"]
    /\ req' = [req EXCEPT ![t] = r]
    /\ UNCHANGED <<file, pipelines, running, began, rivals, acq, constructed, fin>>

\* The event loop is free to start task t.
CanStart(t) == pc[t] = "pending" /\ running = 0

\* Task t ends with outcome o, having got mapping res from engine eng and read
\* ld datasets; the cache was `b` when it began and is `cache` now.
Ended(t, o, res, eng, ld, b, cache) ==
    /\ pc' = [pc EXCEPT ![t] = "done"]
    /\ req' = [req EXCEPT ![t] = NoRequest]
    /\ fin' = [req |-> req[t], out |-> o, result |-> res, engine |-> eng,
               loads |-> ld, before |-> b, after |-> cache]
    /\ pipelines' = cache
    /\ running' = 0

\* list_tools returns the table (server.py, lines 25-28).
RunListTools(t) ==
    /\ CanStart(t)
    /\ req[t].kind = "list_tools"
    /\ Ended(t, ReturnedValue(ALL_TOOLS), NoResult, "none", 0, pipelines, pipelines)
    /\ UNCHANGED <<file, began, rivals, acq, constructed>>

\* call_tool, the name has the tabular prefix: execute_data_tool (line 38).
RunData(t, numpy) ==
    /\ CanStart(t)
    /\ req[t].kind = "call_tool" /\ Route(req[t].name) = "data"
    /\ LET e == ExecuteDataTool(req[t].name, req[t].args, file, numpy) IN
       Ended(t, Respond(e.result), e.result, "data", e.loads, pipelines, pipelines)
    /\ UNCHANGED <<file, began, rivals, acq, constructed>>

\* call_tool, the name has neither prefix (line 42).
RunUnrouted(t) ==
    /\ CanStart(t)
    /\ req[t].kind = "call_tool" /\ Route(req[t].name) = "none"
    /\ LET res == UnknownTool(req[t].name) IN
       Ended(t, Respond(res), res, "none", 0, pipelines, pipelines)
    /\ UNCHANGED <<file, began, rivals, acq, constructed>>

\* call_tool, the inference prefix, no branch of execute_ml_tool matches (line 139).
RunMlUnknown(t) ==
    /\ CanStart(t)
    /\ req[t].kind = "call_tool" /\ Route(req[t].name) = "ml"
    /\ req[t].name \notin PipelineTools \cup {N_embeddings}
    /\ LET res == Except(Returned(UnknownTool(req[t].name), 0)) IN
       Ended(t, Respond(res), res, "ml", 0, pipelines, pipelines)
    /\ UNCHANGED <<file, began, rivals, acq, constructed>>

\* call_tool, flynn-ml_embeddings (lines 117-137).
RunEmbeddings(t, loadOk, inferOk) ==
    /\ CanStart(t)
    /\ req[t].kind = "call_tool" /\ req[t].name = N_embeddings
    /\ LET res == Except(EmbeddingsTool(req[t].args, loadOk, inferOk)) IN
       Ended(t, Respond(res), res, "ml", 0, pipelines, pipelines)
    /\ UNCHANGED <<file, began, rivals, acq, constructed>>

\* What a task does once get_pipeline has returned pp to it: get_pipeline's own
\* caller receives pp; a pipeline tool runs the rest of its branch.
Continue(t, pp, b, cache, inferOk) ==
    /\ acq' = [acq EXCEPT ![t] = [task |-> AcquiredTask(req[t]),
                                  model |-> AcquiredModel(req[t]), pipe |-> pp]]
    /\ IF req[t].kind = "get_pipeline"
       THEN Ended(t, ReturnedValue(pp), NoResult, "none", 0, b, cache)
       ELSE LET res == Except(AfterPipeline(req[t].name, req[t].args, inferOk)) IN
            Ended(t, Respond(res), res, "ml", 0, b, cache)

\* get_pipeline finds its key in the cache (lines 76, 80).
AcquireHit(t, inferOk) ==
    /\ CanStart(t)
    /\ AcquiresPipeline(req[t])
    /\ ~CacheMiss(pipelines, RequestKey(req[t]))
    /\ Continue(t, pipelines[RequestKey(req[t])], pipelines, pipelines, inferOk)
    /\ UNCHANGED <<file, began, rivals, constructed>>

\* get_pipeline misses and calls pipeline(task, model=model) (lines 76-79).
AcquireMiss(t) ==
    /\ CanStart(t)
    /\ AcquiresPipeline(req[t])
    /\ CacheMiss(pipelines, RequestKey(req[t]))
    /\ pc' = [pc EXCEPT ![t] = "constructing"]
    /\ running' = t
    /\ began' = [began EXCEPT ![t] = pipelines]
    /\ rivals' = [rivals EXCEPT ![t] =
                    {q \in Tasks \ {t} : /\ pc[q] = "pending"
                                         /\ RequestKey(req[q]) = RequestKey(req[t])}]
    /\ UNCHANGED <<file, pipelines, req, acq, constructed, fin>>

\* pipeline() returns and the pipeline is stored under its key (lines 79-80).
ConstructOk(t, inferOk) ==
    /\ pc[t] = "constructing"
    /\ LET key == RequestKey(req[t])
           pp == NewPipeline(AcquiredTask(req[t]), AcquiredModel(req[t]),
                             Built(key) + 1)
       IN /\ constructed' = [k \in DOMAIN constructed \cup {key} |->
                               IF k = key THEN Built(key) + 1 ELSE constructed[k]]
          /\ Continue(t, pp, began[t], Store(pipelines, key, pp), inferOk)
    /\ UNCHANGED <<file, began, rivals>>

\* pipeline() raises after an entry was stored for the key all the same.
ConstructFails_Stores(t) ==
    /\ pc[t] = "constructing"
    /\ LET cache == Store(pipelines, RequestKey(req[t]), NoPipe) IN
       IF req[t].kind = "get_pipeline"
       THEN Ended(t, Unhandled("construction failed"), NoResult, "none", 0,
                  began[t], cache)
       ELSE LET res == Except(Thrown("construction failed", 0)) IN
            Ended(t, Respond(res), res, "ml", 0, began[t], cache)
    /\ UNCHANGED <<file, began, rivals, acq, constructed>>

\* pipeline() raises: nothing is stored; execute_ml_tool turns the fault into a
\* failure mapping, get_pipeline's own caller receives the fault.
ConstructFails(t) ==
    /\ pc[t] = "constructing"
    /\ IF req[t].kind = "get_pipeline"
       THEN Ended(t, Unhandled("construction failed"), NoResult, "none", 0,
                  began[t], pipelines)
       ELSE LET res == Except(Thrown("construction failed", 0)) IN
            Ended(t, Respond(res), res, "ml", 0, began[t], pipelines)
    /\ UNCHANGED <<file, began, rivals, acq, constructed>>

\* The first step of task t, whatever its request.
Start(t) ==
    \/ RunListTools(t)
    \/ \E numpy \in BOOLEAN : RunData(t, numpy)
    \/ RunUnrouted(t)
    \/ RunMlUnknown(t)
    \/ \E loadOk, inferOk \in BOOLEAN : RunEmbeddings(t, loadOk, inferOk)
    \/ \E inferOk \in BOOLEAN : AcquireHit(t, inferOk)
    \/ AcquireMiss(t)

Next ==
    \E t \in Tasks :
        \/ \E r \in Requests : Receive(t, r)
        \/ Start(t)
        \/ \E inferOk \in BOOLEAN : ConstructOk(t, inferOk)
        \/ ConstructFails(t)

Spec == Init /\ [][Next]_vars

(***************************************************************************)
(* The tabular engine on its own: the file changes between calls, and      *)
(* execute_data_tool is called directly, as the tests call it.             *)
(***************************************************************************)
T_an == Text(<<"a", "n">>)

\* The rows written to the file.
RowPool ==
    { Row(T_Ana, I(30), T_B, I(5)),
      Row(T_Bob, I(25), T_M, I(4)),
      Row(NaN, I(28), T_B, NaN),
      Row(T_an, NaN, NaN, I(5)) }

\* The values a filter compares against (None: the argument is left out).
FilterValues == {I(28), Text(<<"a">>), Text(<<"n", ".">>), None}

FilterArgs ==
    { [path |-> S(DataPath), column |-> S(c), operator |-> S(o), value |-> v] :
        c \in {"name", "age"}, o \in FilterOps \cup {"invalid"},
        v \in FilterValues \ {None} }
    \cup { [path |-> S(DataPath), column |-> S(c), operator |-> S(o)] :
             c \in {"name", "age"}, o \in {"eq", "gt", "contains"} }
    \cup { [path |-> S(p), column |-> S(c), operator |-> S(o), value |-> I(28)] :
             p \in {DataPath, MissingPath}, c \in {"age", "nope"},
             o \in {"eq", "invalid"} }
    \cup { [path |-> S(DataPath), operator |-> S("invalid"), value |-> I(28)],
           [path |-> S(DataPath), column |-> S("age"), value |-> I(28)],
           [column |-> S("age"), operator |-> S("invalid"), value |-> I(28)] }

AggregateArgs ==
    { [path |-> S(DataPath), group_by |-> S(g), agg_column |-> S(c),
       agg_func |-> S(f)] :
        g \in {"city", "age"}, c \in {"age", "salary", "name"},
        f \in AggFuncs \cup {"invalid"} }
    \cup { [path |-> S(p), group_by |-> S(g), agg_column |-> S(c),
            agg_func |-> S(f)] :
             p \in {DataPath, MissingPath}, g \in {"city", "nope"},
             c \in {"age", "nope"}, f \in {"sum", "invalid"} }
    \cup { [path |-> S(DataPath), group_by |-> List(<<"city", "name">>),
            agg_column |-> S("age"), agg_func |-> S("sum")],
           [path |-> S(DataPath), group_by |-> S("city"),
            agg_func |-> S("invalid")],
           [path |-> S(DataPath), group_by |-> S("city"), agg_column |-> S("age")] }

LoadArgs ==
    { PathOnly, NoArgs, [path |-> S(MissingPath)] }
    \cup { [path |-> S(DataPath), limit |-> I(n)] : n \in {0, 2} }

\* The calls of execute_data_tool the model draws: <<name, args, numpy>>, numpy
\* telling how to_dict hands over the numbers of describe and correlate.
DataCalls ==
    { <<N_filter, a, FALSE>> : a \in FilterArgs }
    \cup { <<N_aggregate, a, FALSE>> : a \in AggregateArgs }
    \cup { <<N_load_csv, a, FALSE>> : a \in LoadArgs }
    \cup { <<n, a, np>> : n \in {N_describe, N_correlate},
                          a \in {PathOnly, NoArgs}, np \in BOOLEAN }
    \cup { <<N_data_unknown, PathOnly, FALSE>>, <<N_other, NoArgs, FALSE>> }

ExecuteData(name, args) ==
    [kind |-> "execute_data_tool", name |-> name, args |-> args]

InitData ==
    /\ file = NoFile
    /\ pipelines = NoCache
    /\ pc = [t \in Tasks |-> "idle"]
    /\ req = [t \in Tasks |-> NoRequest]
    /\ running = 0
    /\ began = [t \in Tasks |-> NoCache]
    /\ rivals = [t \in Tasks |-> {}]
    /\ acq = [t \in Tasks |-> NoAcq]
    /\ constructed = [k \in {} |-> 0]
    /\ fin = NoFin

Rest == <<pipelines, pc, req, running, began, rivals, acq, constructed>>

\* The file is created with its header line and no row.
CreateFile ==
    /\ file = NoFile /\ fin = NoFin
    /\ file' = CsvFile(<<>>)
    /\ UNCHANGED <<Rest, fin>>

\* A row is appended to the file.
WriteRow(r) ==
    /\ file.state = "csv" /\ fin = NoFin
    /\ Len(file.rows) < MaxRows
    /\ file' = CsvFile(Append(file.rows, r))
    /\ UNCHANGED <<Rest, fin>>

\* The rows of a full file are appended to it once more.
DoubleRows ==
    /\ file.state = "csv" /\ fin = NoFin
    /\ Len(file.rows) >= MaxRows
    /\ 2 * Len(file.rows) <= 4 * MaxRows
    /\ file' = CsvFile(file.rows \o file.rows)
    /\ UNCHANGED <<Rest, fin>>

\* The empty file is overwritten with something that is no CSV.
Corrupt ==
    /\ file = CsvFile(<<>>) /\ fin = NoFin
    /\ file' = Malformed
    /\ UNCHANGED <<Rest, fin>>

\* execute_data_tool(name, args) is called and returns.
DataCall(name, args, numpy) ==
    /\ fin = NoFin
    /\ LET e == ExecuteDataTool(name, args, file, numpy) IN
       fin' = [req |-> ExecuteData(name, args), out |-> ReturnedValue(e.result),
               result |-> e.result, engine |-> "data", loads |-> e.loads,
               before |-> pipelines, after |-> pipelines]
    /\ UNCHANGED <<file, Rest>>

\* The caller is done with the result.
Forget ==
    /\ fin # NoFin
    /\ fin' = NoFin
    /\ UNCHANGED <<file, Rest>>

NextData ==
    \/ CreateFile
    \/ \E r \in RowPool : WriteRow(r)
    \/ DoubleRows
    \/ Corrupt
    \/ \E c \in DataCalls : DataCall(c[1], c[2], c[3])
    \/ Forget

SpecData == InitData /\ [][NextData]_vars

(***************************************************************************)
(* Properties of the dispatcher (checked under Spec).                      *)
(***************************************************************************)
KnownTools ==
    {N_load_csv, N_describe, N_filter, N_aggregate, N_correlate,
     N_sentiment, N_summarize, N_classify, N_embeddings}

IsCallTool(f) == f.req.kind = "call_tool"

\* C1: every call of an engine or of call_tool hands its caller a mapping with
\* a boolean `success` and, when success is false, an `error`; no fault of the
\* call reaches the caller unhandled.
C1_FailureContract ==
    (IsCallTool(fin) \/ fin.req.kind = "execute_data_tool") =>
        /\ fin.out.kind = "returned"
        /\ fin.result.success \in BOOLEAN
        /\ (~fin.result.success => "error" \in DOMAIN fin.result)

\* The message the dispatcher is to give for each unrecognized name drawn.
ExpectedUnknown(name) ==
    CASE name = N_data_unknown -> "Unknown tool: flynn-data_unknown"
      [] name = N_ml_unknown -> "Unknown tool: flynn-ml_unknown"
      [] name = N_other -> "Unknown tool: other"
      [] name = N_flynn_data -> "Unknown tool: flynn-data"

Unrecognized(f) == IsCallTool(f) /\ f.req.name \notin KnownTools

\* The payload of the one TextContent call_tool returned.
Payload(f) == f.out.value[1].text

\* C2 as stated: an unrecognized name yields the failure "Unknown tool: <name>"
\* and neither engine is invoked for it.
C2_UnknownToolNoEngine ==
    Unrecognized(fin) =>
        /\ fin.out.kind = "returned"
        /\ Payload(fin) = [success |-> FALSE,
                           error |-> ExpectedUnknown(fin.req.name)]
        /\ fin.engine = "none"

\* The names with the tabular and with the inference prefix, spelled out.
HasDataPrefix(name) == name = N_data_unknown
HasMlPrefix(name) == name = N_ml_unknown

\* C2 as amended: an unrecognized name yields the failure "Unknown tool: <name>";
\* a name with neither prefix is answered by the dispatcher itself, a name with
\* a prefix is handed to that prefix's engine, which answers it without reading
\* a dataset, acquiring a pipeline or changing the cache.
C2_UnknownToolNoWork ==
    Unrecognized(fin) =>
        /\ fin.out.kind = "returned"
        /\ Payload(fin) = [success |-> FALSE,
                           error |-> ExpectedUnknown(fin.req.name)]
        /\ fin.engine = (IF HasDataPrefix(fin.req.name) THEN "data"
                         ELSE IF HasMlPrefix(fin.req.name) THEN "ml" ELSE "none")
        /\ fin.loads = 0
        /\ fin.after = fin.before

C2_Witness ==
    /\ Unrecognized(fin)
    /\ fin.req.name = N_data_unknown
    /\ fin.engine = "data"
    /\ Payload(fin).error = "Unknown tool: flynn-data_unknown"

(***************************************************************************)
(* Properties of the pipeline cache (checked under Spec).                  *)
(***************************************************************************)
Acquired(t) == acq[t] # NoAcq

\* C3: acquisitions of the same (task, model) return the same
\* pipeline, constructed once; acquisitions for the same task with different
\* model values, an omitted model against any named one included, return
\* distinct pipelines.
C3_DistinctModelsDistinctInstances ==
    \A p, q \in Tasks :
        Acquired(p) /\ Acquired(q) /\ acq[p].task = acq[q].task =>
            /\ acq[p].model = acq[q].model =>
                   /\ acq[p].pipe = acq[q].pipe
                   /\ Built(Key(acq[p].task, acq[p].model)) = 1
            /\ acq[p].model # acq[q].model => acq[p].pipe # acq[q].pipe

\* C4: when several invocations were pending for the same uncached key, every
\* interleaving constructs the pipeline of that key at most once, and all of
\* them that get a pipeline get the same one.
C4_ConstructedOnce ==
    /\ \A k \in DOMAIN constructed : constructed[k] <= 1
    /\ \A p \in Tasks : \A q \in rivals[p] :
           Acquired(p) /\ Acquired(q) => acq[p].pipe = acq[q].pipe

\* Two invocations were pending for one uncached key; both have returned with
\* the same pipeline.
C4_Witness ==
    \E p \in Tasks : \E q \in rivals[p] :
        /\ Acquired(p) /\ Acquired(q)
        /\ pc[p] = "done" /\ pc[q] = "done"
        /\ acq[p].pipe = acq[q].pipe
        /\ acq[p].pipe.n = 1

\* C5: while one invocation constructs the pipeline of key k1, an invocation
\* pending for another key k2 can start its acquisition without waiting for
\* that construction to finish.
C5_OtherKeysDoNotWait ==
    \A p, q \in Tasks :
        /\ pc[p] = "constructing"
        /\ pc[q] = "pending"
        /\ AcquiresPipeline(req[q])
        /\ RequestKey(req[q]) # RequestKey(req[p])
        => ENABLED Start(q)

\* The failures that report an invalid request: an unknown operator, function
\* or tool name, or a required argument that is missing.
ValidationErrors ==
    {"Unknown operator: invalid", "Unknown function: invalid",
     "Unknown tool: flynn-data_unknown", "Unknown tool: flynn-ml_unknown",
     "Unknown tool: other", "Unknown tool: flynn-data",
     "'path'", "'column'", "'operator'", "'group_by'", "'agg_column'",
     "'agg_func'", "'text'", "'labels'", "'texts'"}

ValidationFailure(f) ==
    /\ f.req.kind \in {"call_tool", "execute_data_tool"}
    /\ ~f.result.success
    /\ f.result.error \in ValidationErrors

\* C7: a call that ends in a validation failure has read no dataset and
\* constructed no pipeline: the cache is the same after the call as before it.
C7_ValidationBeforeWork ==
    ValidationFailure(fin) => fin.loads = 0 /\ fin.after = fin.before

(***************************************************************************)
(* Properties of the tabular engine (checked under SpecData).              *)
(***************************************************************************)
\* The last call was execute_data_tool(name, ...) called directly.
DataCallOf(name) == fin.req.kind = "execute_data_tool" /\ fin.req.name = name

\* C6: a filter call whose operator is outside FilterOps fails with
\* "Unknown operator: <op>", and an aggregate call whose agg_func is outside
\* AggFuncs fails with "Unknown function: <func>", whatever the other arguments.
C6_UnknownValueReported ==
    /\ (/\ DataCallOf(N_filter)
        /\ Has(fin.req.args, "operator")
        /\ fin.req.args["operator"].v \notin FilterOps)
       => fin.result = Failure("Unknown operator: " \o fin.req.args["operator"].v)
    /\ (/\ DataCallOf(N_aggregate)
        /\ Has(fin.req.args, "agg_func")
        /\ fin.req.args["agg_func"].v \notin AggFuncs)
       => fin.result = Failure("Unknown function: " \o fin.req.args["agg_func"].v)

\* The dataset a successful call has loaded from DataPath.
Dataset == ReadCsv(DataPath, -1, file).df.rows

\* The predicate each operator names, on one column value against `value`;
\* `contains` is the case-sensitive substring test on the text forms, false for
\* a missing column value.
Satisfies(op, cell, val) ==
    CASE op = "eq" -> PyEq(cell, val)
      [] op = "ne" -> ~PyEq(cell, val)
      [] op = "gt" -> cell.t # "nan" /\ Less(val, cell)
      [] op = "lt" -> cell.t # "nan" /\ Less(cell, val)
      [] op = "gte" -> cell.t # "nan" /\ (Less(val, cell) \/ PyEq(cell, val))
      [] op = "lte" -> cell.t # "nan" /\ (Less(cell, val) \/ PyEq(cell, val))
      [] op = "contains" -> cell.t # "nan" /\ IsSubstring(PyStr(val), PyStr(cell))

\* The positions of the rows of the dataset that satisfy the call's predicate.
Matching(args) ==
    {i \in 1..Len(Dataset) :
        Satisfies(args["operator"].v, Dataset[i][args["column"].v], Get(args, "value"))}

\* The j-th matching position, in dataset order.
NthMatching(args, j) ==
    CHOOSE i \in Matching(args) :
        Cardinality({k \in Matching(args) : k < i}) = j - 1

Min(a, b) == IF a < b THEN a ELSE b

\* C8: a successful filter call reports the number of rows of the dataset, the
\* exact number of rows satisfying the predicate, and as preview the first
\* min(10, filtered_rows) matching rows in dataset order.
C8_FilterCountsAndPreview ==
    (DataCallOf(N_filter) /\ fin.result.success) =>
        LET args == fin.req.args
            n == Cardinality(Matching(args))
        IN /\ fin.result.original_rows = I(Len(Dataset))
           /\ fin.result.filtered_rows = I(n)
           /\ n <= Len(Dataset)
           /\ fin.result.preview =
                  List([j \in 1..Min(10, n) |-> Dataset[NthMatching(args, j)]])

\* C8 for every operator but `contains`.
C8_ExceptContains ==
    (DataCallOf(N_filter) /\ fin.result.success
        /\ fin.req.args["operator"].v # "contains") =>
        LET args == fin.req.args
            n == Cardinality(Matching(args))
        IN /\ fin.result.original_rows = I(Len(Dataset))
           /\ fin.result.filtered_rows = I(n)
           /\ n <= Len(Dataset)
           /\ fin.result.preview =
                  List([j \in 1..Min(10, n) |-> Dataset[NthMatching(args, j)]])

\* C9: under `contains` a row matches exactly when the text form of its column
\* value contains the text form of `value` as a substring, and a row whose
\* column value is missing never matches: no row of the preview has a missing
\* column value, and the rows counted are the rows that hold the substring.
C9_ContainsLiteralSubstring ==
    (DataCallOf(N_filter) /\ fin.result.success
        /\ fin.req.args["operator"].v = "contains") =>
        LET col == fin.req.args["column"].v
            pat == PyStr(Get(fin.req.args, "value"))
            pre == fin.result.preview.v
        IN /\ \A j \in 1..Len(pre) :
                  pre[j][col].t # "nan" /\ IsSubstring(pat, PyStr(pre[j][col]))
           /\ fin.result.filtered_rows =
                  I(Cardinality({i \in 1..Len(Dataset) :
                        /\ Dataset[i][col].t # "nan"
                        /\ IsSubstring(pat, PyStr(Dataset[i][col]))}))

\* The positions of the rows of the dataset whose `by` value equals g, and those
\* of them whose `col` value is not missing.
GroupRows(by, g) == {i \in 1..Len(Dataset) : PyEq(Dataset[i][by], g)}
ValuedRows(by, g, col) == {i \in GroupRows(by, g) : Dataset[i][col].t # "nan"}

\* The sum of the numbers, and the concatenation in dataset order of the texts,
\* that column `col` holds at the positions in rs (the numbers of the dataset
\* are integral).
RECURSIVE SumOver(_, _)
SumOver(rs, col) ==
    IF rs = {} THEN 0
    ELSE LET i == CHOOSE k \in rs : TRUE
         IN Frac(Dataset[i][col])[1] + SumOver(rs \ {i}, col)

RECURSIVE ConcatOver(_, _)
ConcatOver(rs, col) ==
    IF rs = {} THEN <<>>
    ELSE LET i == CHOOSE k \in rs : \A m \in rs : k <= m
         IN Dataset[i][col].v \o ConcatOver(rs \ {i}, col)

\* Whether v is the number n / d.
IsRatio(v, n, d) == v.t \in {"int", "float"} /\ Frac(v)[1] * d = n * Frac(v)[2]

\* Whether v is what `func` gives when recomputed directly over the values of
\* `col` at the positions rs, none of them missing: a sum or a mean of numbers, a
\* sum of texts (their concatenation), the least or the greatest value; NaN for
\* the mean, the least and the greatest of no value at all.
Recomputed(func, rs, col, v) ==
    CASE func = "count" -> v = I(Cardinality(rs))
      [] func = "sum" ->
           IF \E i \in rs : Dataset[i][col].t = "text"
           THEN v = Text(ConcatOver(rs, col))
           ELSE IsRatio(v, SumOver(rs, col), 1)
      [] func = "mean" ->
           IF rs = {} THEN v = NaN
           ELSE IsRatio(v, SumOver(rs, col), Cardinality(rs))
      [] func \in {"min", "max"} ->
           IF rs = {} THEN v = NaN
           ELSE \E i \in rs :
                  /\ v = Dataset[i][col]
                  /\ \A k \in rs :
                        IF func = "min" THEN ~Less(Dataset[k][col], v)
                        ELSE ~Less(v, Dataset[k][col])

\* A successful aggregate call on one group_by column.
Aggregated ==
    /\ DataCallOf(N_aggregate)
    /\ fin.result.success
    /\ fin.req.args["group_by"].t = "str"

\* C10: the result of a successful aggregate call has one entry for each
\* distinct value g of the group_by column and no other; the entry of g is the
\* reduction of agg_column over the rows whose group_by value is g: count is the
\* number of those rows whose agg_column is not missing, and sum, mean, min and
\* max equal the direct recomputation over those rows.
C10_AggregateRecomputed ==
    Aggregated =>
        LET by == fin.req.args["group_by"].v
            col == fin.req.args["agg_column"].v
            func == fin.req.args["agg_func"].v
            pairs == fin.result.result.v
        IN /\ {pairs[g][1] : g \in 1..Len(pairs)} =
                  {Dataset[i][by] : i \in {k \in 1..Len(Dataset) :
                                               Dataset[k][by].t # "nan"}}
           /\ \A g, h \in 1..Len(pairs) : pairs[g][1] = pairs[h][1] => g = h
           /\ \A g \in 1..Len(pairs) :
                  Recomputed(func, ValuedRows(by, pairs[g][1], col), col, pairs[g][2])

\* A count was computed over a group one of whose rows has no agg_column value:
\* the count is smaller than the group.
C10_Witness ==
    /\ Aggregated
    /\ fin.req.args["agg_func"].v = "count"
    /\ \E g \in 1..Len(fin.result.result.v) :
           LET pair == fin.result.result.v[g] IN
           /\ pair[2].v >= 1
           /\ pair[2].v < Cardinality(GroupRows(fin.req.args["group_by"].v, pair[1]))

(***************************************************************************)
(* Properties of load_csv, describe and correlate (checked under SpecData). *)
(***************************************************************************)
\* Two fields hold the same value: both missing, or equal.
SameCell(a, b) == (a.t = "nan" /\ b.t = "nan") \/ PyEq(a, b)

\* The limit of a load_csv call: 1000 when the argument is omitted.
LimitOf(args) == IF Has(args, "limit") THEN args["limit"].v ELSE 1000

\* C11: a successful load_csv call on a file of N rows reports
\* rows = min(limit, N), limit being 1000 when omitted, never more than limit,
\* and its preview holds the first min(5, rows) rows of the file.
C11_LoadRowsAndPreview ==
    (DataCallOf(N_load_csv) /\ fin.result.success) =>
        LET n == Min(LimitOf(fin.req.args), Len(file.rows))
            pre == fin.result.preview.v
        IN /\ fin.result.rows = I(n)
           /\ fin.result.rows.v <= LimitOf(fin.req.args)
           /\ Len(pre) = Min(5, n)
           /\ \A j \in 1..Len(pre) : \A c \in ColumnSet :
                  SameCell(pre[j][c], file.rows[j][c])

\* A call with limit 2 on a file of more than five rows returned 2 rows and a
\* preview of 2 rows.
C11_Witness ==
    /\ DataCallOf(N_load_csv) /\ fin.result.success
    /\ Has(fin.req.args, "limit") /\ fin.req.args["limit"].v = 2
    /\ Len(file.rows) > 5
    /\ fin.result.rows = I(2)
    /\ Len(fin.result.preview.v) = 2

\* No entry of a mapping of mappings is the non-finite number NaN.
AllFinite(table) ==
    \A a \in DOMAIN table : \A b \in DOMAIN table[a] : table[a][b].t # "nan"

\* C12: no successful describe or correlate result holds a non-finite number:
\* an entry that would be NaN is the no-value marker None instead, in whatever
\* representation the library handed the number over.
C12_NoNonFiniteNumber ==
    /\ (DataCallOf(N_describe) /\ fin.result.success)
       => AllFinite(fin.result.statistics)
    /\ (DataCallOf(N_correlate) /\ fin.result.success)
       => AllFinite(fin.result.correlation)

\* The numeric columns of the file: those of a file with rows that hold no text.
NumericColumns ==
    {c \in ColumnSet : /\ file.rows # <<>>
                       /\ \A i \in 1..Len(file.rows) : file.rows[i][c].t # "text"}

\* Column c holds two different numbers.
NonzeroVariance(c) ==
    \E i, j \in 1..Len(file.rows) :
        /\ file.rows[i][c].t = "int" /\ file.rows[j][c].t = "int"
        /\ file.rows[i][c].v # file.rows[j][c].v

\* A successful correlate call.
Correlated == DataCallOf(N_correlate) /\ fin.result.success

\* C13: the correlate result is keyed on both axes by exactly the numeric
\* columns, corr[a][b] == corr[b][a] for every pair of them, and
\* corr[a][a] == 1.0 for every numeric column of nonzero variance.
C13_CorrelationSymmetric ==
    Correlated =>
        LET corr == fin.result.correlation IN
        /\ DOMAIN corr = NumericColumns
        /\ \A a \in DOMAIN corr : DOMAIN corr[a] = NumericColumns
        /\ \A a, b \in DOMAIN corr : PyEq(corr[a][b], corr[b][a])
        /\ \A a \in DOMAIN corr : NonzeroVariance(a) => PyEq(corr[a][a], Fl(1, 1))

\* C13 with two entries taken for the same when both are NaN.
C13_UpToNaN ==
    Correlated =>
        LET corr == fin.result.correlation IN
        /\ DOMAIN corr = NumericColumns
        /\ \A a \in DOMAIN corr : DOMAIN corr[a] = NumericColumns
        /\ \A a, b \in DOMAIN corr : SameCell(corr[a][b], corr[b][a])
        /\ \A a \in DOMAIN corr : NonzeroVariance(a) => PyEq(corr[a][a], Fl(1, 1))

(***************************************************************************)
(* Properties of the tool table (checked under Spec).                      *)
(***************************************************************************)
\* The last call was list_tools, and `table` is what it returned.
Listed == fin.req.kind = "list_tools" /\ fin.out.kind = "returned"

TabularNames == <<N_load_csv, N_describe, N_filter, N_aggregate, N_correlate>>
InferenceNames == <<N_sentiment, N_summarize, N_classify, N_embeddings>>

\* The names of a sequence of fields.
Members(seq) == {seq[i] : i \in 1..Len(seq)}

\* An input contract is self-consistent: an object with a properties mapping
\* that holds every required name and gives `items` for every array.
SelfConsistent(schema) ==
    /\ schema.type = "object"
    /\ "properties" \in DOMAIN schema
    /\ Members(schema.required) \subseteq DOMAIN schema.properties
    /\ \A p \in DOMAIN schema.properties :
           LET prop == schema.properties[p] IN
           ("type" \in DOMAIN prop /\ prop.type = "array") => "items" \in DOMAIN prop

\* C14: every list_tools call returns the same ordered table, the five tabular
\* tools followed by the four inference tools, with pairwise distinct names and
\* self-consistent input contracts; every tabular tool requires `path`.
C14_ToolTable ==
    Listed =>
        LET table == fin.out.value IN
        /\ [i \in 1..Len(table) |-> table[i].name] = TabularNames \o InferenceNames
        /\ \A i, j \in 1..Len(table) : table[i].name = table[j].name => i = j
        /\ \A i \in 1..Len(table) : SelfConsistent(table[i].inputSchema)
        /\ \A i \in 1..Len(table) :
               StartsWith(table[i].name, DataPrefix)
                   => "path" \in Members(table[i].inputSchema.required)

\* list_tools returned the table of nine tools after a pipeline had been cached
\* by an earlier call.
C14_Witness ==
    /\ Listed
    /\ Len(fin.out.value) = 9
    /\ pipelines # NoCache
    /\ "items" \in DOMAIN fin.out.value[9].inputSchema.properties["texts"]

(***************************************************************************)
(* The frame of the pipeline cache (checked under Spec).                   *)
(***************************************************************************)
\* Task t ends in this step.
Ends(t) == pc[t] # "done" /\ pc'[t] = "done"

\* This step adds to the cache exactly the entry of the key task t was
\* constructing, and hands the stored pipeline to t.
GainsEntry(t) ==
    /\ pc[t] = "constructing" /\ Ends(t)
    /\ RequestKey(req[t]) \notin DOMAIN pipelines
    /\ DOMAIN pipelines' = DOMAIN pipelines \cup {RequestKey(req[t])}
    /\ acq'[t].pipe = pipelines'[RequestKey(req[t])]

\* Task t is a tabular operation or the embeddings operation.
LeavesCacheAlone(t) ==
    /\ req[t].kind = "call_tool"
    /\ (StartsWith(req[t].name, DataPrefix) \/ req[t].name = N_embeddings)

\* The step of the cache: entries stay as they are; the cache changes only by
\* a successful construction gaining its entry; a construction that fails, a
\* tabular operation and the embeddings operation leave it unchanged.
CacheStep ==
    /\ \A k \in DOMAIN pipelines :
           k \in DOMAIN pipelines' /\ pipelines'[k] = pipelines[k]
    /\ pipelines' # pipelines => \E t \in Tasks : GainsEntry(t)
    /\ \A t \in Tasks :
           (pc[t] = "constructing" /\ Ends(t) /\ acq'[t] = NoAcq)
               => /\ pipelines' = pipelines
                  /\ constructed' = constructed
                  /\ RequestKey(req[t]) \notin DOMAIN pipelines'
    /\ \A t \in Tasks :
           (LeavesCacheAlone(t) /\ Ends(t)) => pipelines' = pipelines

\* C15: over any sequence of invocations the cache changes only by gaining one
\* entry when an acquisition of an absent key constructs its pipeline; an entry
\* is never removed or replaced; a failed construction leaves the cache
\* unchanged and the key absent; tabular operations and embeddings leave the
\* cache unchanged.
C15_CacheFrame == [][CacheStep]_vars

\* A call whose construction failed has ended: the cache it found, holding the
\* pipeline of another key, is the cache it left.
C15_Witness ==
    /\ fin.req.kind = "call_tool"
    /\ ~fin.result.success /\ fin.result.error = "construction failed"
    /\ fin.before # NoCache
    /\ fin.after = fin.before
    /\ pipelines = fin.before

====
